---- MODULE Spec2Model ----
(***************************************************************************)
(* A model of the uxn-rs virtual machine (src/src/uxn.rs): the two stacks  *)
(* with their live and shadow pointers, the 64KB memory, the device bus    *)
(* and the fetch/decode/dispatch loop of Uxn::eval, one step per           *)
(* instruction.                                                            *)
(***************************************************************************)
EXTENDS Integers, Sequences, FiniteSets, TLC

VARIABLES
    ram,             \* Uxn.ram: the non-zero bytes of the 64KB array
    pc,              \* Uxn.pc
    wst,             \* Uxn.wst: [ptr, kptr, data]
    rst,             \* Uxn.rst: [ptr, kptr, data]
    devices,         \* the state of the devices in Uxn.devices
    is_halted,       \* Uxn.is_halted
    overflow_checks, \* the build: "on" traps integer overflow, "off" wraps; "unknown"
                     \* until the first overflow, which either build may have run
    status,          \* position of the host: "idle", "running" (in eval's loop), "panic"
    res,             \* what the last eval call returned ("none" before any return)
    trace,           \* the stack, memory and device accesses of the last instruction
    last,            \* the last host call or instruction, with the machine before it
    host,            \* what the host has done so far (bounds the exploration)
    asm              \* the assembler: the last parser run, its input and its IResult

vars == <<ram, pc, wst, rst, devices, is_halted, overflow_checks, status, res,
          trace, last, host, asm>>

(***************************************************************************)
(* Bytes, arrays and bit operations.                                       *)
(***************************************************************************)
RamSize == 65536
StackSize == 256

\* A zero-initialised byte array is kept as the function of its non-zero cells.
Zeroed == [i \in {} |-> 0]
Rd(f, i) == IF i \in DOMAIN f THEN f[i] ELSE 0
Wr(f, i, v) ==
    IF v = 0 THEN [j \in (DOMAIN f) \ {i} |-> f[j]]
    ELSE [j \in (DOMAIN f) \cup {i} |-> IF j = i THEN v ELSE f[j]]

Pow2(n) == 2 ^ n
Bit(x, i) == (x \div Pow2(i)) % 2

\* v as u8
AsU8(v) == v % 256

RECURSIVE BitwiseFrom(_, _, _, _)
BitwiseFrom(i, a, b, op) ==
    IF i = 16 THEN 0
    ELSE LET x == Bit(a, i)
             y == Bit(b, i)
             z == CASE op = "and" -> x * y
                    [] op = "or" -> IF x + y > 0 THEN 1 ELSE 0
                    [] op = "xor" -> (x + y) % 2
         IN z * Pow2(i) + BitwiseFrom(i + 1, a, b, op)
BitAnd(a, b) == BitwiseFrom(0, a, b, "and")
BitOr(a, b) == BitwiseFrom(0, a, b, "or")
BitXor(a, b) == BitwiseFrom(0, a, b, "xor")
\* u16 shifts by less than 16 bits: bits shifted out are dropped, no trap
Shl16(a, n) == (a * Pow2(n)) % 65536
Shr16(a, n) == a \div Pow2(n)

(***************************************************************************)
(* InstructionMode and Opcode: the instruction byte is converted whole to  *)
(* the mode bitmask; the opcode is its low five bits.                      *)
(***************************************************************************)
ModeNone == 0
ModeShort == 32
ModeReturn == 64
ModeKeep == 128
IsShort(mode) == Bit(mode, 5) = 1
IsReturn(mode) == Bit(mode, 6) = 1
IsKeep(mode) == Bit(mode, 7) = 1
OpcodeOf(instr) == instr % 32

LIT == 0
INC == 1
POP == 2
NIP == 3
SWP == 4
ROT == 5
DUP == 6
OVR == 7
EQU == 8
NEQ == 9
GTH == 10
LTH == 11
JMP == 12
JCN == 13
JSR == 14
STH == 15
LDZ == 16
STZ == 17
LDR == 18
STR == 19
LDA == 20
STA == 21
DEI == 22
DEO == 23
ADD == 24
SUB == 25
MUL == 26
DIV == 27
AND == 28
ORA == 29
EOR == 30
SFT == 31

(***************************************************************************)
(* Results of the fallible operations: ExecutionResult<T>. err = "" is Ok, *)
(* "panic" is a Rust panic (index out of bounds, trapped overflow), any    *)
(* other string is the Err the operation returned. m is the machine after  *)
(* the operation, v the value of an Ok.                                    *)
(***************************************************************************)
Ok(m, v) == [err |-> "", m |-> m, v |-> v]
Err(m, e) == [err |-> e, m |-> m, v |-> 0]
Panic(m) == Err(m, "panic")
AndThen(r, F(_)) == IF r.err # "" THEN r ELSE F(r)

\* One access of the instruction being executed, appended to the machine's trace:
\* for a pop or push, s names the stack, n the width, p and q the live pointer and
\* kp and kq the shadow pointer before and after; for a peek or poke, p..q are the
\* addresses; for a device call, s is the slot and n the port.
Event(kind, slot, width, before, after, value, ok) ==
    [k |-> kind, s |-> slot, n |-> width, p |-> before, q |-> after, kp |-> 0,
     kq |-> 0, v |-> value, ok |-> ok]
StackEvent(kind, mode, width, s, t, value, ok) ==
    [k |-> kind, s |-> IF IsReturn(mode) THEN "rst" ELSE "wst", n |-> width,
     p |-> s.ptr, q |-> t.ptr, kp |-> s.kptr, kq |-> t.kptr, v |-> value, ok |-> ok]
Log(m, e) == [m EXCEPT !.trace = Append(@, e)]

(***************************************************************************)
(* Stack                                                                   *)
(***************************************************************************)
get_stack(m, mode) == IF IsReturn(mode) THEN m.rst ELSE m.wst

\* a write-back that ignores the Return flag
set_stack_working(m, mode, s) == [m EXCEPT !.wst = s]

set_stack(m, mode, s) ==
    IF IsReturn(mode) THEN [m EXCEPT !.rst = s] ELSE [m EXCEPT !.wst = s]

kpop8(m, mode) ==
    LET s == get_stack(m, mode) IN
    IF s.kptr = 0
    THEN Err(Log(m, StackEvent("pop", mode, 1, s, s, 0, FALSE)),
             "Stack underflow")
    ELSE LET value == Rd(s.data, s.kptr)
             t == [s EXCEPT !.kptr = s.kptr - 1]
         IN Ok(Log(set_stack(m, mode, t),
                   StackEvent("pop", mode, 1, s, t, value, TRUE)),
               value)

kpop16(m, mode) ==
    LET s == get_stack(m, mode) IN
    IF s.kptr <= 1
    THEN Err(Log(m, StackEvent("pop", mode, 2, s, s, 0, FALSE)),
             "Stack underflow")
    ELSE LET t == [s EXCEPT !.kptr = s.kptr - 2]
             value == Rd(t.data, t.kptr) * 256 + Rd(t.data, t.kptr + 1)
         IN Ok(Log(set_stack(m, mode, t),
                   StackEvent("pop", mode, 2, s, t, value, TRUE)),
               value)

pop8(m, mode) ==
    LET s == get_stack(m, mode) IN
    IF s.ptr = 0
    THEN Err(Log(m, StackEvent("pop", mode, 1, s, s, 0, FALSE)),
             "Stack underflow")
    ELSE LET t == [s EXCEPT !.ptr = s.ptr - 1]
             value == Rd(t.data, t.ptr)
         IN Ok(Log(set_stack(m, mode, t),
                   StackEvent("pop", mode, 1, s, t, value, TRUE)),
               value)

pop16(m, mode) ==
    LET s == get_stack(m, mode) IN
    IF s.ptr <= 1
    THEN Err(Log(m, StackEvent("pop", mode, 2, s, s, 0, FALSE)),
             "Stack underflow")
    ELSE LET t == [s EXCEPT !.ptr = s.ptr - 2]
             value == Rd(t.data, t.ptr) * 256 + Rd(t.data, t.ptr + 1)
         IN Ok(Log(set_stack(m, mode, t),
                   StackEvent("pop", mode, 2, s, t, value, TRUE)),
               value)

\* pop that forgets the Keep flag
pop_consuming(m, mode) == IF IsShort(mode) THEN pop16(m, mode) ELSE pop8(m, mode)

pop(m, mode) ==
    IF IsKeep(mode)
    THEN IF IsShort(mode) THEN kpop16(m, mode) ELSE kpop8(m, mode)
    ELSE IF IsShort(mode) THEN pop16(m, mode) ELSE pop8(m, mode)

\* push8 with the bound one too low
push8_early(m, v, mode) ==
    LET s == get_stack(m, mode) IN
    IF s.ptr >= 254
    THEN Err(Log(m, StackEvent("push", mode, 1, s, s, v, FALSE)),
             "Stack overflow")
    ELSE LET t == [s EXCEPT !.data = Wr(s.data, s.ptr, AsU8(v)), !.ptr = s.ptr + 1]
         IN Ok(Log(set_stack(m, mode, t),
                   StackEvent("push", mode, 1, s, t, v, TRUE)),
               0)

push8(m, v, mode) ==
    LET s == get_stack(m, mode) IN
    IF s.ptr >= 255
    THEN Err(Log(m, StackEvent("push", mode, 1, s, s, v, FALSE)),
             "Stack overflow")
    ELSE LET t == [s EXCEPT !.data = Wr(s.data, s.ptr, AsU8(v)), !.ptr = s.ptr + 1]
         IN Ok(Log(set_stack(m, mode, t),
                   StackEvent("push", mode, 1, s, t, v, TRUE)),
               0)

push16(m, v, mode) ==
    LET s == get_stack(m, mode) IN
    IF s.ptr >= 254
    THEN Err(Log(m, StackEvent("push", mode, 2, s, s, v, FALSE)),
             "Stack overflow")
    ELSE LET hi == Wr(s.data, s.ptr, AsU8(v \div 256))
             lo == Wr(hi, s.ptr, v % 256)
             t == [s EXCEPT !.data = lo, !.ptr = s.ptr + 2]
         IN Ok(Log(set_stack(m, mode, t),
                   StackEvent("push", mode, 2, s, t, v, TRUE)),
               0)

\* push that forgets the Short flag
push_byte(m, v, mode) == push8(m, v, mode)

push(m, v, mode) ==
    IF IsShort(mode) THEN push16(m, v, mode) ELSE push8(m, v, mode)

(***************************************************************************)
(* Memory                                                                  *)
(***************************************************************************)
peek(m, addr, mode) ==
    IF IsShort(mode)
    THEN IF addr + 1 >= RamSize
         THEN Panic(Log(m, Event("peek", "ram", 2, addr, addr + 1, 0, FALSE)))
         ELSE LET value == Rd(m.ram, addr) * 256 + Rd(m.ram, addr + 1)
              IN Ok(Log(m, Event("peek", "ram", 2, addr, addr + 1, value, TRUE)), value)
    ELSE Ok(Log(m, Event("peek", "ram", 1, addr, addr, Rd(m.ram, addr), TRUE)),
            Rd(m.ram, addr))

poke(m, addr, value, mode) ==
    IF IsShort(mode)
    THEN LET hi == [m EXCEPT !.ram = Wr(m.ram, addr, AsU8(value \div 256))] IN
         IF addr + 1 >= RamSize
         THEN Panic(Log(hi, Event("poke", "ram", 2, addr, addr + 1, value, FALSE)))
         ELSE Ok(Log([hi EXCEPT !.ram = Wr(hi.ram, addr + 1, value % 256)],
                     Event("poke", "ram", 2, addr, addr + 1, value, TRUE)), 0)
    ELSE Ok(Log([m EXCEPT !.ram = Wr(m.ram, addr, AsU8(value))],
                Event("poke", "ram", 1, addr, addr, value, TRUE)), 0)

\* u16 arithmetic: a result outside 0..65535 traps in a build with overflow checks
\* and wraps in one without.
Checked(m, overflows, wrapped, F(_, _)) ==
    IF ~overflows THEN F(m, wrapped)
    ELSE IF m.overflow_checks THEN Panic([m EXCEPT !.overflowed = TRUE])
    ELSE F([m EXCEPT !.overflowed = TRUE], wrapped)
Arith(m, x, F(_, _)) == Checked(m, x < 0 \/ x >= 65536, x % 65536, F)
\* a * b mod 2^16, by the bytes of b
Mul16(a, b) == (((a * (b \div 256)) % 256) * 256 + a * (b % 256)) % 65536
MulOverflows(a, b) == a # 0 /\ b > 65535 \div a

warp(m, addr, mode) ==
    IF IsShort(mode) THEN Ok([m EXCEPT !.pc = addr], 0)
    ELSE Arith(m, m.pc + addr, LAMBDA n, x : Ok([n EXCEPT !.pc = x], 0))

(***************************************************************************)
(* Devices. Uxn::new installs a BitmapDevice in slot 1, a VectorDevice in  *)
(* slot 2 and a NullDevice in every other slot; slot 0 is never called     *)
(* through the array, the machine answers for it.                          *)
(***************************************************************************)
NewDevices ==
    [bitmap |-> [buffer |-> Zeroed, x |-> 0, y |-> 0, color |-> 0],
     vector |-> [x |-> 0, y |-> 0, width |-> 0, height |-> 0, color |-> 0]]

DeviceKind(slot) ==
    CASE slot = 1 -> "bitmap"
      [] slot = 2 -> "vector"
      [] OTHER -> "null"

VectorDevice_dei(m, port) == Err(m, "device not implemented")

VectorDevice_deo(m, port, value) ==
    LET d == m.devices.vector IN
    CASE port = 0 ->
           IF value \in {1, 2} THEN Err(m, "device not implemented")
           ELSE Err(m, "invalid draw command")
      [] port = 1 -> Err([m EXCEPT !.devices.vector.x = value], "device not implemented")
      [] port = 2 -> Err([m EXCEPT !.devices.vector.y = value], "device not implemented")
      [] port = 3 ->
           Err([m EXCEPT !.devices.vector.width = value], "device not implemented")
      [] port = 4 ->
           Err([m EXCEPT !.devices.vector.height = value], "device not implemented")
      [] port = 5 ->
           Err([m EXCEPT !.devices.vector.color = value], "device not implemented")
      [] OTHER -> Err(m, "device not implemented")

BitmapDevice_dei(m, port) == Err(m, "device not implemented")

draw_pixel(d) == [d EXCEPT !.buffer = Wr(d.buffer, d.y * 16 + d.x, d.color)]

BitmapDevice_deo(m, port, value) ==
    LET d == m.devices.bitmap IN
    CASE port = 0 ->
           IF value = 0 THEN Err(m, "device not implemented")
           ELSE IF value = 1
           THEN Err([m EXCEPT !.devices.bitmap = draw_pixel(d)], "device not implemented")
           ELSE Err(m, "invalid draw command")
      [] port = 1 ->
           Err([m EXCEPT !.devices.bitmap.x = value % 16], "device not implemented")
      [] port = 2 ->
           Err([m EXCEPT !.devices.bitmap.y = value % 16], "device not implemented")
      [] port = 3 ->
           Err([m EXCEPT !.devices.bitmap.color = value], "device not implemented")
      [] OTHER -> Err(m, "device not implemented")

NullDevice_dei(m, port) == Err(m, "NullDevice::dei")
NullDevice_deo(m, port, value) == Err(m, "NullDevice::deo")

\* the system device with the two pointer ports exchanged
Uxn_dei_swapped(m, port) ==
    CASE port = 2 -> Ok(m, m.rst.ptr)
      [] port = 3 -> Ok(m, m.wst.ptr)
      [] OTHER -> Err(m, "Uxn::dei")

\* impl Device for Uxn: the system device
Uxn_dei(m, port) ==
    CASE port = 2 -> Ok(m, m.wst.ptr)
      [] port = 3 -> Ok(m, m.rst.ptr)
      [] OTHER -> Err(m, "Uxn::dei")

Uxn_deo(m, port, value) ==
    CASE port = 2 -> Ok([m EXCEPT !.wst.ptr = value], 0)
      [] port = 3 -> Ok([m EXCEPT !.rst.ptr = value], 0)
      [] port = 14 -> Ok(m, 0)
      [] port = 15 -> Ok([m EXCEPT !.is_halted = (value # 0)], 0)
      [] port > 7 /\ port < 14 -> Ok(m, 0)
      [] OTHER -> Err(m, "Uxn::deo")

\* self.devices[device].dei(port) / .deo(port, value): dynamic dispatch on the slot
devices_dei(m, device, port) ==
    LET n == Log(m, Event("dei", device, port, 0, 0, 0, TRUE)) IN
    CASE DeviceKind(device) = "bitmap" -> BitmapDevice_dei(n, port)
      [] DeviceKind(device) = "vector" -> VectorDevice_dei(n, port)
      [] OTHER -> NullDevice_dei(n, port)

devices_deo(m, device, port, value) ==
    LET n == Log(m, Event("deo", device, port, 0, 0, value, TRUE)) IN
    CASE DeviceKind(device) = "bitmap" -> BitmapDevice_deo(n, port, value)
      [] DeviceKind(device) = "vector" -> VectorDevice_deo(n, port, value)
      [] OTHER -> NullDevice_deo(n, port, value)

(***************************************************************************)
(* The opcodes of Uxn::eval. a is the first value popped, b the second.    *)
(***************************************************************************)
Opposite(mode) == IF IsReturn(mode) THEN ModeNone ELSE ModeReturn

Pop2(m, mode, F(_, _, _)) ==
    AndThen(pop(m, mode), LAMBDA ra :
        AndThen(pop(ra.m, mode), LAMBDA rb : F(rb.m, ra.v, rb.v)))

op_LIT(m, mode) ==
    AndThen(peek(m, m.pc, mode), LAMBDA ra :
        AndThen(push(ra.m, ra.v, mode), LAMBDA rp :
            Arith(rp.m, rp.m.pc + 1, LAMBDA n, x :
                IF IsShort(mode)
                THEN Arith([n EXCEPT !.pc = x], x + 1,
                           LAMBDA n2, x2 : Ok([n2 EXCEPT !.pc = x2], 0))
                ELSE Ok([n EXCEPT !.pc = x], 0))))

op_INC(m, mode) ==
    AndThen(pop(m, mode), LAMBDA ra :
        Arith(ra.m, ra.v + 1, LAMBDA n, x : push(n, x, mode)))

op_POP(m, mode) == AndThen(pop(m, mode), LAMBDA ra : Ok(ra.m, 0))

op_NIP(m, mode) == Pop2(m, mode, LAMBDA n, a, b : push(n, a, mode))

op_SWP(m, mode) ==
    Pop2(m, mode, LAMBDA n, a, b :
        AndThen(push(n, a, mode), LAMBDA r : push(r.m, b, mode)))

op_ROT(m, mode) ==
    Pop2(m, mode, LAMBDA n, a, b :
        AndThen(pop(n, mode), LAMBDA rc :
            AndThen(AndThen(push(rc.m, b, mode), LAMBDA r : push(r.m, a, mode)),
                    LAMBDA r : push(r.m, rc.v, mode))))

\* DUP that pushes its operand back once
op_DUP_once(m, mode) == AndThen(pop(m, mode), LAMBDA ra : push(ra.m, ra.v, mode))

op_DUP(m, mode) ==
    AndThen(pop(m, mode), LAMBDA ra :
        AndThen(push(ra.m, ra.v, mode), LAMBDA r : push(r.m, ra.v, mode)))

op_OVR(m, mode) ==
    Pop2(m, mode, LAMBDA n, a, b :
        AndThen(push(n, b, mode), LAMBDA r :
            AndThen(push(r.m, a, mode), LAMBDA r2 : push(r2.m, b, mode))))

Flag(c) == IF c THEN 1 ELSE 0
op_EQU(m, mode) == Pop2(m, mode, LAMBDA n, a, b : push8(n, Flag(a = b), mode))
op_NEQ(m, mode) == Pop2(m, mode, LAMBDA n, a, b : push8(n, Flag(a # b), mode))
\* GTH with the first-popped value on the left
op_GTH_swapped(m, mode) == Pop2(m, mode, LAMBDA n, a, b : push8(n, Flag(a > b), mode))

op_GTH(m, mode) == Pop2(m, mode, LAMBDA n, a, b : push8(n, Flag(b > a), mode))

op_LTH(m, mode) == Pop2(m, mode, LAMBDA n, a, b : push8(n, Flag(b < a), mode))

op_JMP(m, mode) == AndThen(pop(m, mode), LAMBDA ra : warp(ra.m, ra.v, mode))

op_JCN(m, mode) ==
    AndThen(pop(m, mode), LAMBDA ra :
        AndThen(pop8(ra.m, mode), LAMBDA rb :
            IF rb.v # 0 THEN warp(rb.m, ra.v, mode) ELSE Ok(rb.m, 0)))

op_JSR(m, mode) ==
    AndThen(pop(m, mode), LAMBDA ra :
        AndThen(push8(ra.m, ra.m.pc, Opposite(mode)), LAMBDA r :
            warp(r.m, ra.v, mode)))

op_STH(m, mode) ==
    AndThen(pop(m, mode), LAMBDA ra : push16(ra.m, ra.v, Opposite(mode)))

op_LDZ(m, mode) ==
    AndThen(pop8(m, mode), LAMBDA ra :
        AndThen(peek(ra.m, ra.v, mode), LAMBDA rb : push(rb.m, rb.v, mode)))

op_STZ(m, mode) ==
    AndThen(pop8(m, mode), LAMBDA ra :
        AndThen(pop(ra.m, mode), LAMBDA rb : poke(rb.m, ra.v, rb.v, mode)))

op_LDR(m, mode) ==
    AndThen(pop8(m, mode), LAMBDA ra :
        Arith(ra.m, ra.v + ra.m.pc, LAMBDA n, addr :
            AndThen(peek(n, addr, mode), LAMBDA rb : push(rb.m, rb.v, mode))))

op_STR(m, mode) ==
    AndThen(pop8(m, mode), LAMBDA ra :
        AndThen(pop(ra.m, mode), LAMBDA rb :
            Arith(rb.m, ra.v + rb.m.pc, LAMBDA n, addr : poke(n, addr, rb.v, mode))))

op_LDA(m, mode) ==
    AndThen(pop16(m, mode), LAMBDA ra :
        AndThen(peek(ra.m, ra.v, mode), LAMBDA rb : push(rb.m, rb.v, mode)))

op_STA(m, mode) ==
    AndThen(pop16(m, mode), LAMBDA ra :
        AndThen(pop(ra.m, mode), LAMBDA rb : poke(rb.m, ra.v, rb.v, mode)))

\* the nibbles of the selector taken the other way round
DeviceOf_swapped(a) == a % 16

DeviceOf(a) == (a \div 16) % 16
PortOf(a) == a % 16

op_DEI(m, mode) ==
    AndThen(pop8(m, mode), LAMBDA ra :
        AndThen(IF DeviceOf(ra.v) = 0
                THEN Uxn_dei(Log(ra.m, Event("dei", 0, PortOf(ra.v), 0, 0, 0, TRUE)),
                             PortOf(ra.v))
                ELSE devices_dei(ra.m, DeviceOf(ra.v), PortOf(ra.v)),
                LAMBDA rb : push(rb.m, rb.v, mode)))

op_DEO(m, mode) ==
    AndThen(pop8(m, mode), LAMBDA ra :
        AndThen(pop(ra.m, mode), LAMBDA rv :
            IF DeviceOf(ra.v) = 0
            THEN Uxn_deo(Log(rv.m, Event("deo", 0, PortOf(ra.v), 0, 0, AsU8(ra.v), TRUE)),
                         PortOf(ra.v), AsU8(ra.v))
            ELSE devices_deo(rv.m, DeviceOf(ra.v), PortOf(ra.v), AsU8(rv.v))))

\* ADD that stops at the largest byte instead of wrapping
op_ADD_saturating(m, mode) ==
    Pop2(m, mode, LAMBDA n, a, b :
        push(n, IF ~IsShort(mode) /\ a + b > 255 THEN 255 ELSE (a + b) % 65536, mode))

op_ADD(m, mode) ==
    Pop2(m, mode, LAMBDA n, a, b : Arith(n, a + b, LAMBDA n2, x : push(n2, x, mode)))
op_SUB(m, mode) ==
    Pop2(m, mode, LAMBDA n, a, b : Arith(n, b - a, LAMBDA n2, x : push(n2, x, mode)))
op_MUL(m, mode) ==
    Pop2(m, mode, LAMBDA n, a, b :
        Checked(n, MulOverflows(a, b), Mul16(a, b), LAMBDA n2, x : push(n2, x, mode)))
op_DIV(m, mode) ==
    Pop2(m, mode, LAMBDA n, a, b :
        IF a = 0 THEN Err(n, "Division by zero") ELSE push(n, b \div a, mode))
op_AND(m, mode) == Pop2(m, mode, LAMBDA n, a, b : push(n, BitAnd(a, b), mode))
op_ORA(m, mode) == Pop2(m, mode, LAMBDA n, a, b : push(n, BitOr(a, b), mode))
op_EOR(m, mode) == Pop2(m, mode, LAMBDA n, a, b : push(n, BitXor(a, b), mode))

op_SFT(m, mode) ==
    AndThen(pop(m, mode), LAMBDA ra :
        AndThen(pop8(ra.m, mode), LAMBDA rb :
            push(rb.m, Shr16(Shl16(ra.v, rb.v \div 16), rb.v % 16), mode)))

dispatch(m, opcode, mode) ==
    CASE opcode = LIT -> op_LIT(m, mode)
      [] opcode = INC -> op_INC(m, mode)
      [] opcode = POP -> op_POP(m, mode)
      [] opcode = NIP -> op_NIP(m, mode)
      [] opcode = SWP -> op_SWP(m, mode)
      [] opcode = ROT -> op_ROT(m, mode)
      [] opcode = DUP -> op_DUP(m, mode)
      [] opcode = OVR -> op_OVR(m, mode)
      [] opcode = EQU -> op_EQU(m, mode)
      [] opcode = NEQ -> op_NEQ(m, mode)
      [] opcode = GTH -> op_GTH(m, mode)
      [] opcode = LTH -> op_LTH(m, mode)
      [] opcode = JMP -> op_JMP(m, mode)
      [] opcode = JCN -> op_JCN(m, mode)
      [] opcode = JSR -> op_JSR(m, mode)
      [] opcode = STH -> op_STH(m, mode)
      [] opcode = LDZ -> op_LDZ(m, mode)
      [] opcode = STZ -> op_STZ(m, mode)
      [] opcode = LDR -> op_LDR(m, mode)
      [] opcode = STR -> op_STR(m, mode)
      [] opcode = LDA -> op_LDA(m, mode)
      [] opcode = STA -> op_STA(m, mode)
      [] opcode = DEI -> op_DEI(m, mode)
      [] opcode = DEO -> op_DEO(m, mode)
      [] opcode = ADD -> op_ADD(m, mode)
      [] opcode = SUB -> op_SUB(m, mode)
      [] opcode = MUL -> op_MUL(m, mode)
      [] opcode = DIV -> op_DIV(m, mode)
      [] opcode = AND -> op_AND(m, mode)
      [] opcode = ORA -> op_ORA(m, mode)
      [] opcode = EOR -> op_EOR(m, mode)
      [] opcode = SFT -> op_SFT(m, mode)

(***************************************************************************)
(* The machine as one record, and one iteration of the loop of Uxn::eval.  *)
(***************************************************************************)
Machine(checks) ==
    [ram |-> ram, pc |-> pc, wst |-> wst, rst |-> rst, devices |-> devices,
     is_halted |-> is_halted, overflow_checks |-> checks, overflowed |-> FALSE,
     trace |-> <<>>]

\* an iteration that goes on to the next fetch after an Err
eval_loop_forgiving(m) ==
    LET instr == Rd(m.ram, m.pc)
        opcode == OpcodeOf(instr)
        r == Arith(m, m.pc + 1, LAMBDA n, x :
                 LET f == [n EXCEPT !.pc = x] IN
                 IF instr = 0 THEN Ok(f, 0)
                 ELSE LET mode == instr
                          k == IF IsKeep(mode)
                               THEN [f EXCEPT !.wst.kptr = f.wst.ptr,
                                              !.rst.kptr = f.rst.ptr]
                               ELSE f
                      IN dispatch(k, opcode, mode))
    IN IF r.err = "panic" THEN r ELSE Ok(r.m, 0)

\* an iteration that never copies the live pointers to the shadow pointers
eval_loop_unsnapped(m) ==
    LET instr == Rd(m.ram, m.pc)
        opcode == OpcodeOf(instr)
    IN Arith(m, m.pc + 1, LAMBDA n, x :
           LET f == [n EXCEPT !.pc = x] IN
           IF instr = 0 THEN Ok(f, 0) ELSE dispatch(f, opcode, instr))

\* an iteration whose break also sets the halted flag
eval_loop_halting(m) ==
    LET instr == Rd(m.ram, m.pc)
        opcode == OpcodeOf(instr)
    IN Arith(m, m.pc + 1, LAMBDA n, x :
           LET f == [n EXCEPT !.pc = x] IN
           IF instr = 0 THEN Ok([f EXCEPT !.is_halted = TRUE], 0)
           ELSE LET mode == instr
                    k == IF IsKeep(mode)
                         THEN [f EXCEPT !.wst.kptr = f.wst.ptr, !.rst.kptr = f.rst.ptr]
                         ELSE f
                IN dispatch(k, opcode, mode))

eval_loop(m) ==
    LET instr == Rd(m.ram, m.pc)
        opcode == OpcodeOf(instr)
    IN Arith(m, m.pc + 1, LAMBDA n, x :
           LET f == [n EXCEPT !.pc = x] IN
           IF instr = 0 THEN Ok(f, 0)
           ELSE LET mode == instr
                    k == IF IsKeep(mode)
                         THEN [f EXCEPT !.wst.kptr = f.wst.ptr, !.rst.kptr = f.rst.ptr]
                         ELSE f
                IN dispatch(k, opcode, mode))

\* The builds that may have produced the run so far.
Builds ==
    CASE overflow_checks = "unknown" -> {TRUE, FALSE}
      [] overflow_checks = "on" -> {TRUE}
      [] overflow_checks = "off" -> {FALSE}

\* The host call or instruction being made, with the machine as it is before it.
Called(op, arg) ==
    [op |-> op, arg |-> arg, pc |-> pc, ram |-> ram, wst |-> wst, rst |-> rst,
     devices |-> devices, is_halted |-> is_halted]

(***************************************************************************)
(* Uxn::new                                                                *)
(***************************************************************************)
NewStack == [ptr |-> 0, kptr |-> 0, data |-> Zeroed]

new ==
    /\ ram = Zeroed
    /\ pc = 0
    /\ wst = NewStack
    /\ rst = NewStack
    /\ devices = NewDevices
    /\ is_halted = FALSE

\* no parser of the assembler has run
Unparsed == [parser |-> "none", input |-> <<>>, ok |-> FALSE, rest |-> <<>>, out |-> [error |-> "none"]]

Init ==
    /\ new
    /\ asm = Unparsed
    /\ overflow_checks = "unknown"
    /\ status = "idle"
    /\ res = "none"
    /\ trace = <<>>
    /\ last = Called("new", 0)
    /\ host = [loads |-> 0, evals |-> 0, boots |-> 0, origin |-> 0]

(***************************************************************************)
(* Uxn::boot                                                               *)
(***************************************************************************)
boot ==
    /\ status = "idle"
    /\ wst' = [wst EXCEPT !.ptr = 0, !.kptr = 0]
    /\ rst' = [rst EXCEPT !.ptr = 0, !.kptr = 0]
    /\ ram' = Zeroed
    /\ pc' = 0
    /\ is_halted' = FALSE
    /\ last' = Called("boot", 0)
    /\ host' = [host EXCEPT !.boots = @ + 1]
    /\ trace' = <<>>
    /\ UNCHANGED <<devices, overflow_checks, status, res, asm>>

(***************************************************************************)
(* Uxn::load_program: copy_from_slice into ram[addr .. addr + len]; the    *)
(* slice index panics when it ends past the array.                         *)
(***************************************************************************)
\* a copy that lands one byte further on
RECURSIVE CopyFromSlice_shifted(_, _, _, _)
CopyFromSlice_shifted(mem, program, addr, i) ==
    IF i > Len(program) THEN mem
    ELSE CopyFromSlice_shifted(Wr(mem, addr + i, program[i]), program, addr, i + 1)

RECURSIVE CopyFromSlice(_, _, _, _)
CopyFromSlice(mem, program, addr, i) ==
    IF i > Len(program) THEN mem
    ELSE CopyFromSlice(Wr(mem, addr + i - 1, program[i]), program, addr, i + 1)

load_program(program, addr) ==
    /\ status = "idle"
    /\ IF addr + Len(program) > RamSize
       THEN status' = "panic" /\ ram' = ram
       ELSE status' = status /\ ram' = CopyFromSlice(ram, program, addr, 1)
    /\ last' = Called("load_program", addr)
    /\ host' = [host EXCEPT !.loads = @ + 1, !.origin = addr]
    /\ trace' = <<>>
    /\ UNCHANGED <<pc, wst, rst, devices, is_halted, overflow_checks, res, asm>>

(***************************************************************************)
(* Uxn::eval: the entry, and then one action per iteration of its loop.    *)
(***************************************************************************)
\* eval that does not look at the halted flag
eval_unhalted(start_addr) ==
    /\ status = "idle"
    /\ pc' = start_addr
    /\ IF start_addr = 0
       THEN status' = "idle" /\ res' = "Ok"
       ELSE status' = "running" /\ res' = "none"
    /\ last' = Called("eval", start_addr)
    /\ host' = [host EXCEPT !.evals = @ + 1]
    /\ trace' = <<>>
    /\ UNCHANGED <<ram, wst, rst, devices, is_halted, overflow_checks, asm>>

eval(start_addr) ==
    /\ status = "idle"
    /\ pc' = start_addr
    /\ IF start_addr = 0 \/ is_halted
       THEN status' = "idle" /\ res' = "Ok"
       ELSE status' = "running" /\ res' = "none"
    /\ last' = Called("eval", start_addr)
    /\ host' = [host EXCEPT !.evals = @ + 1]
    /\ trace' = <<>>
    /\ UNCHANGED <<ram, wst, rst, devices, is_halted, overflow_checks, asm>>

Step ==
    /\ status = "running"
    /\ \E checks \in Builds :
         LET r == eval_loop(Machine(checks)) IN
         /\ ram' = r.m.ram
         /\ pc' = r.m.pc
         /\ wst' = r.m.wst
         /\ rst' = r.m.rst
         /\ devices' = r.m.devices
         /\ is_halted' = r.m.is_halted
         /\ trace' = r.m.trace
         /\ overflow_checks' =
              IF r.m.overflowed THEN (IF checks THEN "on" ELSE "off") ELSE overflow_checks
         /\ status' = CASE r.err = "panic" -> "panic"
                        [] r.err # "" /\ r.err # "panic" -> "idle"
                        [] r.err = "" /\ Rd(ram, pc) = 0 -> "idle"
                        [] OTHER -> "running"
         /\ res' = CASE r.err = "panic" -> res
                     [] r.err # "" /\ r.err # "panic" -> r.err
                     [] r.err = "" /\ Rd(ram, pc) = 0 -> "Ok"
                     [] OTHER -> res
    /\ last' = Called("instr", Rd(ram, pc))
    /\ UNCHANGED <<host, asm>>

(***************************************************************************)
(* The host. It loads one program and then calls eval; a program is a run  *)
(* of byte literals (the operands), one instruction byte and a tail.       *)
(***************************************************************************)
MaxDepth == 2
MaxEvals == 2

AllInstrs == 0..255
LitByte(stack) == IF stack = "rst" THEN ModeKeep + ModeReturn ELSE ModeKeep

RECURSIVE Operands(_, _, _)
Operands(stack, values, n) ==
    IF n = 0 THEN {<<>>}
    ELSE LET shorter == Operands(stack, values, n - 1) IN
         shorter \cup {p \o <<LitByte(stack), v>> :
                          p \in {q \in shorter : Len(q) = 2 * (n - 1)}, v \in values}

ProgramsOf(setups, instrs, tail) ==
    {setup \o <<instr>> \o tail : setup \in setups, instr \in instrs}

HostLoad(inputs) ==
    /\ host.loads = 0
    /\ \E input \in inputs : load_program(input[1], input[2])

HostEval(starts, limit) ==
    /\ host.loads > 0
    /\ host.evals < limit
    /\ \E start_addr \in starts : eval(start_addr)

HostBoot ==
    /\ host.evals > 0
    /\ host.boots = 0
    /\ boot

(***************************************************************************)
(* Spec: every instruction byte on every stack of up to MaxDepth operands  *)
(* taken from ProbeValues, pushed on the working or on the return stack,   *)
(* and the loops that fill a stack with 2-byte pushes from an even and     *)
(* from an odd pointer. The program is evaluated once.                     *)
(***************************************************************************)
ProbeValues == {0, 1, 255}
ProbePrograms ==
    ProgramsOf(Operands("wst", ProbeValues, MaxDepth)
                   \cup Operands("rst", ProbeValues, MaxDepth),
               AllInstrs, <<0, ModeReturn + JMP>>)
FillPrograms ==
    {<<<<ModeShort + LIT, 0, 1, ModeKeep + ModeShort + JMP>>, 256>>,
     <<<<ModeKeep + LIT, 7, ModeShort + LIT, 0, 1, ModeKeep + ModeShort + JMP>>, 254>>}
ProbeInputs == {<<program, 256>> : program \in ProbePrograms} \cup FillPrograms

ProbeLoad == HostLoad(ProbeInputs)
ProbeEval == HostEval({host.origin}, 1)

Next == ProbeLoad \/ ProbeEval \/ Step

Spec == Init /\ [][Next]_vars

(***************************************************************************)
(* SpecDev: DEI and DEO in every mode on a value and a port selector, then *)
(* a literal push; the host calls eval up to MaxEvals times, at the        *)
(* program or at 0, and may boot the machine after that.                   *)
(***************************************************************************)
Selectors ==
    (0..15) \cup {16 * d + port : d \in 1..2, port \in 0..6}
        \cup {16 * d + port : d \in 3..15, port \in {0, 5, 15}}
DevValues == {0, 7}
DevInstrs == {mode + op : mode \in {0, 32, 64, 96, 128, 160, 192, 224}, op \in {DEI, DEO}}
DevOperands(stack) ==
    {<<LitByte(stack), v, LitByte(stack), sel>> : v \in DevValues, sel \in Selectors}
DevPrograms ==
    ProgramsOf(DevOperands("wst") \cup DevOperands("rst"), DevInstrs,
               <<ModeKeep + LIT, 1>>)
DevInputs == {<<program, 256>> : program \in DevPrograms}

DevLoad == HostLoad(DevInputs)
DevEval == HostEval({0, host.origin}, MaxEvals)

NextDev == DevLoad \/ DevEval \/ Step \/ HostBoot

SpecDev == Init /\ [][NextDev]_vars

(***************************************************************************)
(* SpecSeq: short programs that end in a break. The host loads one and     *)
(* calls eval at its address; it may then boot the machine, load a second  *)
(* program and call eval again. The programs are: two literals and ADD,    *)
(* SUB or MUL, on bytes and on shorts; operands followed by DUP and two    *)
(* POPs; every instruction byte on a stack of SymDepth bytes; and a lone   *)
(* break at the first and at the last address a program can start at.      *)
(***************************************************************************)
SymDepth == 6

ByteValues == {0, 1, 16, 32, 128, 255}
ShortValues == {0, 1, 255, 258, 32768, 65535}
ArithOps == {ADD, SUB, MUL}
ArithPrograms ==
    {<<ModeKeep + LIT, x, ModeKeep + LIT, y, op, 0>> :
        x \in ByteValues, y \in ByteValues, op \in ArithOps}
    \cup
    {<<ModeKeep + ModeShort + LIT, x \div 256, x % 256,
       ModeKeep + ModeShort + LIT, y \div 256, y % 256, ModeShort + op, 0>> :
        x \in ShortValues, y \in ShortValues, op \in ArithOps}

RECURSIVE Pushing(_, _)
Pushing(stack, values) ==
    IF values = <<>> THEN <<>>
    ELSE <<LitByte(stack), Head(values)>> \o Pushing(stack, Tail(values))

DupPrograms ==
    {Pushing(stack, values)
         \o <<keep + short + return + DUP, short + return + POP, short + return + POP, 0>> :
        stack \in {"wst", "rst"}, values \in {<<200>>, <<200, 201>>, <<200, 201, 202>>},
        keep \in {0, ModeKeep}, short \in {0, ModeShort}, return \in {0, ModeReturn}}

SymPrograms ==
    {Pushing(stack, [i \in 1..SymDepth |-> i]) \o <<instr, 0>> :
        stack \in {"wst", "rst"}, instr \in AllInstrs}

\* two operands and a comparison, on bytes and on shorts
CmpOps == {EQU, NEQ, GTH, LTH}
CmpPrograms ==
    {Pushing("wst", <<b, a>>) \o <<op, 0>> :
        a \in {0, 1, 255}, b \in {0, 1, 255}, op \in CmpOps}
    \cup
    {Pushing("wst", <<b \div 256, b % 256, a \div 256, a % 256>>)
         \o <<ModeShort + op, 0>> :
        a \in {1, 256, 65535}, b \in {1, 256, 65535}, op \in CmpOps}

\* a control byte, a value and SFT
ShiftPrograms ==
    {Pushing("wst", <<control, a>>) \o <<SFT, 0>> :
        control \in {1, 16, 68, 76}, a \in {1, 255}}
    \cup
    {Pushing("wst", <<control, a \div 256, a % 256>>) \o <<ModeShort + SFT, 0>> :
        control \in {1, 16, 68, 76}, a \in {384, 65535}}

\* a DEO to the pointer ports of the system device, from either stack
PortPrograms ==
    {Pushing(stack, <<7, port>>) \o <<return + DEO, 0>> :
        stack \in {"wst", "rst"}, port \in {2, 3}, return \in {0, ModeReturn}}

SeqInputs ==
    {<<program, 256>> :
        program \in ArithPrograms \cup DupPrograms \cup SymPrograms
                        \cup CmpPrograms \cup ShiftPrograms \cup PortPrograms}
        \cup {<<<<0>>, 1>>, <<<<0>>, RamSize - 1>>}

\* the programs loaded after a boot
ReloadInputs ==
    {<<<<ModeKeep + ModeShort + LIT, 1, 2, 0>>, 256>>,
     <<<<ModeKeep + LIT, 1, ModeKeep + INC, 0>>, 256>>,
     <<<<ModeKeep + LIT, 1, INC, 0>>, 256>>}

SeqLoad == HostLoad(SeqInputs)
SeqReload ==
    /\ host.loads = 1
    /\ host.boots = 1
    /\ \E input \in ReloadInputs : load_program(input[1], input[2])
SeqEval == HostEval({host.origin}, host.loads)

NextSeq == SeqLoad \/ SeqEval \/ Step \/ HostBoot \/ SeqReload

SpecSeq == Init /\ [][NextSeq]_vars

(***************************************************************************)
(* SpecLoad: the host loads a program and may call eval on it; before or   *)
(* after that call it loads a second slice somewhere else in memory: over  *)
(* the first program, next to it, at address 0 and up to the end of        *)
(* memory.                                                                 *)
(***************************************************************************)
HaltProgram == <<ModeKeep + LIT, 7, ModeKeep + LIT, 15, DEO, 0>>
LoadInputs == {<<program, 256>> : program \in DupPrograms \cup {HaltProgram}}
PatchInputs ==
    {<<program, addr>> :
        program \in {<<9, 8, 7>>, <<0, 0>>, <<>>},
        addr \in {0, 255, 258, RamSize - 3, RamSize - 2, RamSize - 1}}

LoadFirst == HostLoad(LoadInputs)
LoadPatch ==
    /\ host.loads = 1
    /\ \E input \in PatchInputs : load_program(input[1], input[2])
LoadEval == HostEval({256}, 1)

NextLoad == LoadFirst \/ LoadPatch \/ LoadEval \/ Step

SpecLoad == Init /\ [][NextLoad]_vars

(***************************************************************************)
(* What the last instruction did, read from the trace.                     *)
(***************************************************************************)
Ran == last.op = "instr" /\ last.arg # 0
Opcode == OpcodeOf(last.arg)
Failed(e) == status = "idle" /\ res = e
Pops == SelectSeq(trace, LAMBDA e : e.k = "pop")
Pushes == SelectSeq(trace, LAMBDA e : e.k = "push")
DeviceCalls == SelectSeq(trace, LAMBDA e : e.k \in {"dei", "deo"})

RECURSIVE BytesPushed(_, _)
BytesPushed(events, stack) ==
    IF events = <<>> THEN 0
    ELSE (IF Head(events).ok /\ Head(events).s = stack THEN Head(events).n ELSE 0)
             + BytesPushed(Tail(events), stack)

\* The opcodes that take every operand through pop(mode).
ModeAware ==
    {LIT, INC, POP, NIP, SWP, ROT, DUP, OVR, EQU, NEQ, GTH, LTH, JMP, JSR, STH,
     ADD, SUB, MUL, DIV, AND, ORA, EOR}

MachineBefore(checks) ==
    [ram |-> last.ram, pc |-> last.pc, wst |-> last.wst, rst |-> last.rst,
     devices |-> last.devices, is_halted |-> last.is_halted,
     overflow_checks |-> checks, overflowed |-> FALSE, trace |-> <<>>]

\* The last instruction run again from the state before it, with its Keep flag cleared.
WithoutKeep ==
    LET m == MachineBefore(overflow_checks = "on") IN
    eval_loop([m EXCEPT !.ram = Wr(m.ram, m.pc, last.arg - ModeKeep)])

Values(events) == [i \in DOMAIN events |-> <<events[i].s, events[i].n, events[i].v>>]

C2_KeepSameResult ==
    (/\ Ran /\ IsKeep(last.arg) /\ last.arg # ModeKeep + LIT
     /\ Opcode \in ModeAware /\ status = "running" /\ WithoutKeep.err = "") =>
        Values(Pushes) =
            Values(SelectSeq(WithoutKeep.m.trace, LAMBDA e : e.k = "push"))

(***************************************************************************)
(* C3. Claim: in every mode, a DIV whose first-popped value is 0 makes     *)
(* eval return the division-by-zero error with the stack pointers of both  *)
(* stacks equal to their values before the DIV. (Stated for a DIV that     *)
(* finds both operands.)                                                   *)
(***************************************************************************)
C3_DivByZeroKeepsPtrs ==
    (Ran /\ Opcode = DIV /\ Len(Pops) = 2 /\ Pops[2].ok /\ Pops[1].v = 0) =>
        /\ Failed("Division by zero")
        /\ wst.ptr = last.wst.ptr
        /\ rst.ptr = last.rst.ptr

(***************************************************************************)
(* C4. Claim: a 1-byte pop on a stack whose ptr is 0, and a 2-byte pop on  *)
(* a stack whose ptr is 0 or 1, fails with the stack-underflow error and   *)
(* leaves that stack's ptr and data unchanged; any popping opcode executed *)
(* on an empty stack makes eval return that error with ptr still 0.        *)
(***************************************************************************)
OperandStack(m) == IF IsReturn(last.arg) THEN m.rst ELSE m.wst

C4_PopOnEmptyUnderflows ==
    Ran =>
        /\ \A i \in DOMAIN Pops :
             Pops[i].p < Pops[i].n =>
                 ~Pops[i].ok /\ Pops[i].q = Pops[i].p /\ Failed("Stack underflow")
        /\ (trace # <<>> /\ trace[1].k = "pop" /\ ~trace[1].ok) =>
               /\ wst.ptr = last.wst.ptr /\ wst.data = last.wst.data
               /\ rst.ptr = last.rst.ptr /\ rst.data = last.rst.data
        /\ (Opcode # LIT /\ OperandStack(last).ptr = 0 /\ status # "panic") =>
               /\ Failed("Stack underflow")
               /\ OperandStack([wst |-> wst, rst |-> rst]).ptr = 0

(***************************************************************************)
(* C5. Claim: a 1-byte push fails with the stack-overflow error exactly    *)
(* when the target stack's ptr is 255, a 2-byte push exactly when ptr >=   *)
(* 254; a failed push leaves ptr and the stack data unchanged; no push     *)
(* moves a stack pointer past 255 or writes outside the 256-byte buffer.   *)
(***************************************************************************)
InBuffer(s) == s.ptr \in 0..(StackSize - 1) /\ DOMAIN s.data \subseteq 0..(StackSize - 1)

C5_PushOverflow ==
    /\ InBuffer(wst) /\ InBuffer(rst)
    /\ Ran =>
        /\ \A i \in DOMAIN Pushes :
             LET e == Pushes[i] IN
             /\ e.ok <=> (IF e.n = 1 THEN e.p # 255 ELSE e.p < 254)
             /\ e.ok => e.q = e.p + e.n /\ e.q <= 255
             /\ ~e.ok => e.q = e.p /\ Failed("Stack overflow")
        /\ (Opcode = LIT /\ Failed("Stack overflow")) =>
               /\ wst.ptr = last.wst.ptr /\ wst.data = last.wst.data
               /\ rst.ptr = last.rst.ptr /\ rst.data = last.rst.data

\* a 1-byte push refused at ptr = 255, after the 1-byte push at ptr = 254 went through
C5_Witness ==
    /\ Ran /\ Opcode = LIT /\ Failed("Stack overflow")
    /\ Len(Pushes) = 1 /\ Pushes[1].n = 1 /\ Pushes[1].p = 255
    /\ wst.ptr = 255

(***************************************************************************)
(* C6. Claim: JSR round-trips pc: JSR executed at post-fetch pc = P pushes *)
(* P onto the return stack and jumps to its target, and a JMP with the     *)
(* Return flag executed next sets pc back to P.                            *)
(***************************************************************************)
C6_JsrRoundTrip ==
    [][(/\ Ran /\ last.arg = JSR /\ status = "running"
        /\ Rd(ram, pc) = ModeReturn + JMP
        /\ status' # "panic")
       => pc' = last.pc + 1]_vars

(***************************************************************************)
(* C7. Claim: writing a nonzero value to system port 0x0f with DEO halts   *)
(* the machine: after that DEO the running eval executes no further        *)
(* instruction (no later fetch changes stacks, memory or devices).         *)
(***************************************************************************)
WroteTo(selector) ==
    /\ Ran /\ Opcode = DEO /\ Len(Pops) = 2 /\ Pops[2].ok
    /\ Pops[1].v = selector
    /\ Len(DeviceCalls) = 1

C7_HaltStopsEval ==
    [][(WroteTo(15) /\ Pops[2].v # 0 /\ status = "running")
       => (ram' = ram /\ wst' = wst /\ rst' = rst /\ devices' = devices)]_vars

(***************************************************************************)
(* C8. Claim: a DEO addressed to the system device delivers the data value *)
(* v popped from the stack, not the port selector: to port 0x02 it sets    *)
(* the working-stack pointer to v, to port 0x03 the return-stack pointer,  *)
(* and to port 0x0f it sets the halted flag iff v # 0.                     *)
(***************************************************************************)
C8_SystemDeoWritesValue ==
    /\ WroteTo(2) => wst.ptr = Pops[2].v
    /\ WroteTo(3) => rst.ptr = Pops[2].v
    /\ WroteTo(15) => (is_halted <=> Pops[2].v # 0)

(***************************************************************************)
(* C9. Claim: for DEI and DEO with port-selector byte s, the only device   *)
(* whose read or write is invoked is slot s >> 4 with port s & 0x0f, slot  *)
(* 0 being the machine itself: no other device is called or changed.       *)
(***************************************************************************)
C9_DeviceRouting ==
    Ran =>
        /\ Len(DeviceCalls) <= 1
        /\ DeviceCalls # <<>> =>
             LET call == DeviceCalls[1]
                 selector == Pops[1].v
             IN /\ Opcode \in {DEI, DEO}
                /\ call.k = (IF Opcode = DEI THEN "dei" ELSE "deo")
                /\ call.s = selector \div 16
                /\ call.n = selector % 16
                /\ call.s # 1 => devices.bitmap = last.devices.bitmap
                /\ call.s # 2 => devices.vector = last.devices.vector
                /\ call.s # 0 => is_halted = last.is_halted
        /\ DeviceCalls = <<>> => devices = last.devices /\ is_halted = last.is_halted

\* DEO to selector 0x15: slot 1 (the bitmap device), port 5
C9_Witness ==
    /\ WroteTo(21)
    /\ DeviceCalls[1].k = "deo" /\ DeviceCalls[1].s = 1 /\ DeviceCalls[1].n = 5
    /\ Failed("device not implemented")

(***************************************************************************)
(* C10. Claim: eval(start) called with start = 0, or while the halted flag *)
(* is set, returns Ok at once without fetching or executing anything:      *)
(* memory, both stacks, the devices and the halted flag are unchanged.     *)
(***************************************************************************)
C10_EvalNoOp ==
    (last.op = "eval" /\ (last.arg = 0 \/ last.is_halted)) =>
        /\ status = "idle" /\ res = "Ok"
        /\ trace = <<>>
        /\ ram = last.ram
        /\ wst = last.wst /\ rst = last.rst
        /\ devices = last.devices
        /\ is_halted = last.is_halted

\* eval at the program's address on a machine that a DEO to port 0x0f has halted
C10_Witness ==
    /\ last.op = "eval" /\ last.arg # 0 /\ last.is_halted
    /\ last.ram # Zeroed /\ Rd(last.ram, last.arg) # 0
    /\ status = "idle"

(***************************************************************************)
(* C11. Claim: when the byte at a nonzero start address is 0x00, eval      *)
(* returns Ok after that single fetch, and memory and both stacks'         *)
(* pointers and data are what they were before the call.                   *)
(***************************************************************************)
C11_BreakAtStart ==
    [][(last.op = "eval" /\ last.arg # 0 /\ status = "running" /\ Rd(ram, pc) = 0)
       => /\ status' = "idle" /\ res' = "Ok"
          /\ ram' = ram
          /\ wst' = wst /\ rst' = rst]_vars

(***************************************************************************)
(* C12. Claim: halted is terminal until the next eval call: once the       *)
(* halted flag is set no instruction executes, and the next eval call with *)
(* a nonzero start address executes the program at that address.           *)
(***************************************************************************)
C12_HaltedUntilNextEval ==
    /\ ~(Ran /\ last.is_halted)
    /\ (last.op = "eval" /\ last.arg # 0 /\ Rd(last.ram, last.arg) # 0) =>
           status = "running"

(***************************************************************************)
(* C13. Claim: after boot, whatever was loaded and evaluated before,       *)
(* memory is all zero, both stacks are reset, pc is 0 and the halted flag  *)
(* is clear, so that a program loaded and evaluated afterwards gives the   *)
(* same result, stack contents and memory as on a machine from new().      *)
(***************************************************************************)
RunFuel == 4

\* eval's loop from machine m, for at most fuel instructions
RECURSIVE Run(_, _)
Run(m, fuel) ==
    IF fuel = 0 THEN Ok(m, 0)
    ELSE LET r == eval_loop(m) IN
         IF r.err # "" \/ Rd(m.ram, m.pc) = 0 THEN r
         ELSE Run([r.m EXCEPT !.trace = <<>>], fuel - 1)

Contents(s) == [i \in 0..(s.ptr - 1) |-> Rd(s.data, i)]

\* the machine new() builds, holding this machine's memory and pc
Fresh(checks) ==
    [Machine(checks) EXCEPT !.wst = NewStack, !.rst = NewStack,
                            !.devices = NewDevices, !.is_halted = FALSE]

C13_BootAsNew ==
    /\ last.op = "boot" =>
           /\ ram = Zeroed /\ pc = 0 /\ ~is_halted
           /\ wst.ptr = 0 /\ rst.ptr = 0
    /\ (last.op = "eval" /\ host.boots > 0 /\ status = "running") =>
           \A checks \in Builds :
               LET booted == Run(Machine(checks), RunFuel)
                   fresh == Run(Fresh(checks), RunFuel)
               IN /\ booted.err = fresh.err
                  /\ Contents(booted.m.wst) = Contents(fresh.m.wst)
                  /\ Contents(booted.m.rst) = Contents(fresh.m.rst)
                  /\ booted.m.ram = fresh.m.ram

(***************************************************************************)
(* C14. Claim: for all bytes x and y, the program "push byte literal x,    *)
(* push byte literal y, ADD" run on an empty working stack ends with       *)
(* exactly one byte on the working stack, (x + y) mod 256, and the return  *)
(* stack untouched.                                                        *)
(***************************************************************************)
\* the loaded program is LIT x, LIT y, ADD, break, and eval was called once on it
AddProgram ==
    /\ host.evals = 1 /\ host.boots = 0
    /\ Rd(ram, host.origin) = ModeKeep + LIT
    /\ Rd(ram, host.origin + 2) = ModeKeep + LIT
    /\ Rd(ram, host.origin + 4) = ADD
    /\ Rd(ram, host.origin + 5) = 0
AddX == Rd(ram, host.origin + 1)
AddY == Rd(ram, host.origin + 3)

C14_AddBytes ==
    (AddProgram /\ last.op = "instr" /\ last.pc \in {host.origin + 4, host.origin + 5}) =>
        /\ status # "panic"
        /\ last.pc = host.origin + 4 => status = "running"
        /\ last.pc = host.origin + 5 => Failed("Ok")
        /\ wst.ptr = 1
        /\ Rd(wst.data, 0) = (AddX + AddY) % 256
        /\ rst.ptr = 0 /\ rst.data = Zeroed

\* 0x10 + 0x20 = 0x30, eval has returned
C14_Witness ==
    /\ AddProgram /\ AddX = 16 /\ AddY = 32
    /\ last.op = "instr" /\ last.pc = host.origin + 5 /\ Failed("Ok")
    /\ Contents(wst) = [i \in {0} |-> 48]

(***************************************************************************)
(* C15. Claim: ADD, SUB and MUL never fail, whatever the operand values,   *)
(* and push (b OP a) mod 2^w, a the first-popped and b the second-popped   *)
(* operand, w = 8 without Short and 16 with it: SUB with b < a, and ADD    *)
(* and MUL past the operand width, wrap around instead of aborting.        *)
(***************************************************************************)
Width(mode) == IF IsShort(mode) THEN 65536 ELSE 256

\* the value of the mode's width on top of the stack the mode names
Top(mode) ==
    LET s == IF IsReturn(mode) THEN rst ELSE wst IN
    IF IsShort(mode)
    THEN Rd(s.data, s.ptr - 2) * 256 + Rd(s.data, s.ptr - 1)
    ELSE Rd(s.data, s.ptr - 1)

Wrapped(op, a, b, mode) ==
    CASE op = ADD -> (b + a) % Width(mode)
      [] op = SUB -> (b - a) % Width(mode)
      [] op = MUL -> Mul16(b, a) % Width(mode)

C15_ArithWraps ==
    (/\ Ran /\ Opcode \in ArithOps /\ ~IsKeep(last.arg)
     /\ Len(Pops) = 2 /\ Pops[2].ok) =>
        /\ status = "running"
        /\ Top(last.arg) = Wrapped(Opcode, Pops[1].v, Pops[2].v, last.arg)

(***************************************************************************)
(* C16. Claim: for every opcode other than LIT, JSR, JCN, JMP, DEI and     *)
(* DEO, the net change of each stack's depth in bytes when the instruction *)
(* is executed with Short is twice its net change when executed without    *)
(* Short.                                                                  *)
(***************************************************************************)
\* The last instruction run again from the state before it, with its Short flag cleared.
WithoutShort ==
    LET m == MachineBefore(FALSE) IN
    eval_loop([m EXCEPT !.ram = Wr(m.ram, m.pc, last.arg - ModeShort)])

ShortScalesDepth(opcodes) ==
    (/\ Ran /\ IsShort(last.arg) /\ Opcode \in opcodes
     /\ status = "running" /\ WithoutShort.err = "") =>
        /\ wst.ptr - last.wst.ptr = 2 * (WithoutShort.m.wst.ptr - last.wst.ptr)
        /\ rst.ptr - last.rst.ptr = 2 * (WithoutShort.m.rst.ptr - last.rst.ptr)

C16_ShortSymmetry ==
    ShortScalesDepth((0..31) \ {LIT, JSR, JCN, JMP, DEI, DEO})

\* C16 as amended: the depth change doubles for the opcodes whose every pop and
\* push has the width of the mode: INC, POP, NIP, SWP, ROT, DUP, OVR, ADD, SUB,
\* MUL, DIV, AND, ORA and EOR.
UniformWidth ==
    {INC, POP, NIP, SWP, ROT, DUP, OVR, ADD, SUB, MUL, DIV, AND, ORA, EOR}

C16_UniformShortSymmetry == ShortScalesDepth(UniformWidth)

\* OVR2 on six bytes: two shorts read, three pushed, the depth grows by 2 where
\* OVR grows it by 1
C16_Witness ==
    /\ Ran /\ last.arg = ModeShort + OVR /\ status = "running"
    /\ last.wst.ptr = SymDepth /\ wst.ptr = SymDepth + 2
    /\ WithoutShort.err = "" /\ WithoutShort.m.wst.ptr = SymDepth + 1

(***************************************************************************)
(* C17. Claim: DUP followed by POP twice returns the stack to its depth    *)
(* and top value before the DUP.                                           *)
(***************************************************************************)
\* the next three instructions are a DUP and two POPs of its width on its stack
DupPopPop ==
    LET instr == Rd(ram, pc) IN
    /\ status = "running" /\ pc + 2 < RamSize
    /\ OpcodeOf(instr) = DUP
    /\ Rd(ram, pc + 1) = instr - (IF IsKeep(instr) THEN ModeKeep ELSE 0) - DUP + POP
    /\ Rd(ram, pc + 2) = Rd(ram, pc + 1)

TopOf(s, mode) ==
    IF IsShort(mode)
    THEN Rd(s.data, s.ptr - 2) * 256 + Rd(s.data, s.ptr - 1)
    ELSE Rd(s.data, s.ptr - 1)

BytesOf(mode) == IF IsShort(mode) THEN 2 ELSE 1

AfterDupPopPop(checks) == Run(Machine(checks), 3)

C17_DupPopPop ==
    DupPopPop =>
        \A checks \in Builds :
            LET mode == Rd(ram, pc)
                r == AfterDupPopPop(checks)
            IN r.err = "" =>
                   /\ get_stack(r.m, mode).ptr = get_stack(Machine(checks), mode).ptr
                   /\ TopOf(get_stack(r.m, mode), mode)
                          = TopOf(get_stack(Machine(checks), mode), mode)

\* C17 as amended: DUP with the Keep flag followed by POP twice returns the stack
\* to its depth and contents before the DUP; DUP without Keep followed by POP
\* twice leaves the stack one operand shallower than before the DUP.
C17_DupKeepPopPop ==
    DupPopPop =>
        \A checks \in Builds :
            LET mode == Rd(ram, pc)
                before == get_stack(Machine(checks), mode)
                r == AfterDupPopPop(checks)
                after == get_stack(r.m, mode)
            IN r.err = "" =>
                   IF IsKeep(mode)
                   THEN /\ after.ptr = before.ptr
                        /\ Contents(after) = Contents(before)
                        /\ TopOf(after, mode) = TopOf(before, mode)
                   ELSE after.ptr = before.ptr - BytesOf(mode)

\* DUPk, POP, POP have run on the stack 200 201
C17_Witness ==
    /\ last.op = "instr" /\ last.arg = POP /\ status = "running"
    /\ Rd(ram, last.pc - 1) = POP
    /\ Rd(ram, last.pc - 2) = ModeKeep + DUP
    /\ last.wst.ptr = 3
    /\ Contents(wst) = [i \in 0..1 |-> 200 + i]

(***************************************************************************)
(* C18. Claim: a machine from new() has a null device in each of the slots *)
(* 1..15: a DEI or DEO addressed to any port of those slots fails with a   *)
(* device error and changes no device state.                               *)
(***************************************************************************)
C18_HostSlotsNull ==
    (Ran /\ DeviceCalls # <<>> /\ DeviceCalls[1].s \in 1..15) =>
        /\ status = "idle" /\ res \notin {"none", "Ok"}
        /\ devices = last.devices

(***************************************************************************)
(* C19. Claim: on the system device (slot 0), DEI succeeds only for ports  *)
(* 0x02 and 0x03, returning the working-stack and the return-stack pointer,*)
(* and errors on every other port; DEO to ports 0x08..0x0d succeeds and    *)
(* changes no machine state; DEO to ports 0x00, 0x01, 0x04..0x07 errors.   *)
(***************************************************************************)
\* the last instruction called the system device, for the port:
SystemCall(kind) ==
    /\ Ran /\ DeviceCalls # <<>>
    /\ DeviceCalls[1].k = kind /\ DeviceCalls[1].s = 0
SystemPort == DeviceCalls[1].n

\* a stack's live pointer when the device was called, after the instruction's pops
PtrAtCall(stack) ==
    LET e == Pops[Len(Pops)] IN
    IF e.s = stack THEN e.q ELSE (IF stack = "wst" THEN last.wst.ptr ELSE last.rst.ptr)

C19_SystemPorts ==
    /\ SystemCall("dei") =>
         /\ SystemPort = 2 =>
              /\ status = "running"
              /\ Len(Pushes) = 1 /\ Pushes[1].ok /\ Pushes[1].v = PtrAtCall("wst")
         /\ SystemPort = 3 =>
              /\ status = "running"
              /\ Len(Pushes) = 1 /\ Pushes[1].ok /\ Pushes[1].v = PtrAtCall("rst")
         /\ SystemPort \notin {2, 3} => Failed("Uxn::dei") /\ Pushes = <<>>
    /\ SystemCall("deo") =>
         /\ SystemPort \in 8..13 =>
              /\ status = "running"
              /\ ram = last.ram /\ devices = last.devices
              /\ is_halted = last.is_halted
              /\ wst.data = last.wst.data /\ rst.data = last.rst.data
              /\ wst.ptr = PtrAtCall("wst") /\ rst.ptr = PtrAtCall("rst")
              /\ pc = last.pc + 1
         /\ SystemPort \in {0, 1, 4, 5, 6, 7} => Failed("Uxn::deo")

\* DEI of port 0x02 with the selector above one byte on the working stack
C19_Witness ==
    /\ SystemCall("dei") /\ SystemPort = 2 /\ last.arg = DEI
    /\ last.wst.ptr = 2 /\ Pushes[1].v = 1
    /\ wst.ptr = 2 /\ Rd(wst.data, 1) = 1

(***************************************************************************)
(* C20. Claim: when an opcode routine reports an error, eval returns that  *)
(* same error at once: no later instruction is fetched or executed, so the *)
(* stacks, memory and pc keep the values they had at the point of failure. *)
(***************************************************************************)
\* the failure the last instruction's routine met, "" for none
Reported ==
    CASE \E i \in DOMAIN trace : trace[i].k = "pop" /\ ~trace[i].ok -> "Stack underflow"
      [] \E i \in DOMAIN trace : trace[i].k = "push" /\ ~trace[i].ok -> "Stack overflow"
      [] /\ Opcode = DIV /\ Len(Pops) = 2 /\ Pops[2].ok /\ Pops[1].v = 0
           -> "Division by zero"
      [] /\ DeviceCalls # <<>> /\ DeviceKind(DeviceCalls[1].s) = "null"
         /\ DeviceCalls[1].s # 0
           -> (IF DeviceCalls[1].k = "dei" THEN "NullDevice::dei" ELSE "NullDevice::deo")
      [] OTHER -> ""

C20_ErrorStopsEval ==
    [][/\ (Ran /\ Reported # "")' => Failed(Reported)'
       /\ (status = "idle" /\ res \notin {"none", "Ok"}) =>
            /\ last'.op # "instr"
            /\ last'.pc = pc /\ last'.ram = ram
            /\ last'.wst = wst /\ last'.rst = rst]_vars

\* DUP2 on a one-byte stack has just made eval return
C20_Witness ==
    /\ Ran /\ last.arg = ModeShort + DUP /\ last.wst.ptr = 1
    /\ Reported = "Stack underflow" /\ Failed("Stack underflow")
    /\ wst.ptr = 1 /\ pc = last.pc + 1

(***************************************************************************)
(* C21. Claim: load_program(bytes, addr) with addr + len(bytes) <= 65536   *)
(* sets memory[addr + i] = bytes[i] for every i and leaves every other     *)
(* byte of memory, pc, both stacks and the halted flag unchanged.          *)
(***************************************************************************)
C21_LoadProgramFrame ==
    [][\A input \in LoadInputs \cup PatchInputs :
         LET program == input[1]
             addr == input[2]
             written == {addr + i - 1 : i \in 1..Len(program)}
         IN (load_program(program, addr) /\ addr + Len(program) <= RamSize) =>
                /\ status' # "panic"
                /\ \A i \in 1..Len(program) : Rd(ram', addr + i - 1) = program[i]
                /\ \A x \in (DOMAIN ram \cup DOMAIN ram') \ written :
                       Rd(ram', x) = Rd(ram, x)
                /\ UNCHANGED <<pc, wst, rst, is_halted>>]_vars

\* 9 8 7 has been loaded at 0x102, over the end of a program that has run
C21_Witness ==
    /\ last.op = "load_program" /\ last.arg = 258 /\ host.loads = 2
    /\ Rd(ram, 258) = 9 /\ Rd(ram, 259) = 8 /\ Rd(ram, 260) = 7
    /\ Rd(last.ram, 258) = ModeKeep + LIT /\ Rd(last.ram, 260) # 7
    /\ Rd(ram, 256) = ModeKeep + LIT /\ Rd(ram, 257) = 200
    /\ host.evals = 1 /\ wst.ptr > 0 /\ pc > 256

(***************************************************************************)
(* C22. Claim: LIT pushes the literal bytes verbatim. With Short, the two  *)
(* bytes that follow the opcode are on the target stack in order, the high *)
(* byte at data[ptr - 2] and the low byte at data[ptr - 1], and pc has     *)
(* advanced past them by 2; without Short the literal byte is on top and   *)
(* pc has advanced by 1.                                                   *)
(***************************************************************************)
C22_LitVerbatim ==
    (Ran /\ Opcode = LIT /\ status = "running") =>
        LET s == IF IsReturn(last.arg) THEN rst ELSE wst IN
        IF IsShort(last.arg)
        THEN /\ Rd(s.data, s.ptr - 2) = Rd(last.ram, last.pc + 1)
             /\ Rd(s.data, s.ptr - 1) = Rd(last.ram, last.pc + 2)
             /\ pc = last.pc + 3
        ELSE /\ Rd(s.data, s.ptr - 1) = Rd(last.ram, last.pc + 1)
             /\ pc = last.pc + 2

(***************************************************************************)
(* C23. Claim: JMP with Short sets pc to the popped 16-bit value; JMP      *)
(* without Short adds the popped byte to the pc after the fetch as a       *)
(* signed 8-bit offset, wrapping at 16 bits: a byte a >= 0x80 moves pc     *)
(* back by 256 - a.                                                        *)
(***************************************************************************)
Signed8(a) == IF a >= 128 THEN a - 256 ELSE a

C23_JmpTarget ==
    (Ran /\ Opcode = JMP /\ Pops # <<>> /\ Pops[1].ok) =>
        /\ status = "running"
        /\ pc = IF IsShort(last.arg)
                THEN Pops[1].v
                ELSE (last.pc + 1 + Signed8(Pops[1].v)) % 65536

(***************************************************************************)
(* C24. Claim: SFT pushes ((a << left) mod 2^w) >> right, left the high    *)
(* and right the low nibble of the control byte, w = 8 without Short and   *)
(* 16 with it: the bits shifted out above the operand width are dropped    *)
(* before the right shift (byte 0xFF with control 0x44 gives 0x0F).        *)
(***************************************************************************)
C24_ShiftWidth ==
    (/\ Ran /\ Opcode = SFT /\ ~IsKeep(last.arg)
     /\ Len(Pops) = 2 /\ Pops[2].ok) =>
        LET a == Pops[1].v
            left == Pops[2].v \div 16
            right == Pops[2].v % 16
        IN /\ status = "running"
           /\ Top(last.arg) = ((a * Pow2(left)) % Width(last.arg)) \div Pow2(right)

(***************************************************************************)
(* C25. Claim: EQU, NEQ, GTH and LTH pop a and then b, each of 1 byte or   *)
(* of 2 with Short, and push exactly one byte, 1 or 0, for b = a, b # a,   *)
(* b > a and b < a compared as unsigned numbers: the second-popped value   *)
(* is the left-hand side.                                                  *)
(***************************************************************************)
Compared(op, a, b) ==
    CASE op = EQU -> b = a
      [] op = NEQ -> b # a
      [] op = GTH -> b > a
      [] op = LTH -> b < a

C25_Comparisons ==
    (Ran /\ Opcode \in CmpOps /\ Len(Pops) = 2 /\ Pops[2].ok) =>
        LET s == IF IsReturn(last.arg) THEN rst ELSE wst IN
        /\ Pops[1].n = BytesOf(last.arg) /\ Pops[2].n = BytesOf(last.arg)
        /\ Len(Pushes) = 1 /\ Pushes[1].n = 1
        /\ Pushes[1].v = Flag(Compared(Opcode, Pops[1].v, Pops[2].v))
        /\ Pushes[1].ok =>
             /\ status = "running"
             /\ s.ptr = Pushes[1].p + 1
             /\ Rd(s.data, s.ptr - 1) = Pushes[1].v
             /\ ~IsKeep(last.arg) =>
                  s.ptr = (IF IsReturn(last.arg) THEN last.rst.ptr ELSE last.wst.ptr)
                              - 2 * BytesOf(last.arg) + 1

\* GTH2 of b = 0x0100 and a = 0x0001: four bytes popped, the byte 1 pushed
C25_Witness ==
    /\ Ran /\ last.arg = ModeShort + GTH /\ status = "running"
    /\ Pops[1].v = 1 /\ Pops[2].v = 256
    /\ last.wst.ptr = 4 /\ wst.ptr = 1 /\ Rd(wst.data, 0) = 1

(***************************************************************************)
(* C26. Claim: STH moves a value between the stacks: it pops a, of 1 byte  *)
(* or of 2 with Short, from the stack the Return flag selects and pushes   *)
(* it on the opposite stack, so that popping the same width from the       *)
(* opposite stack right afterwards returns exactly a.                      *)
(***************************************************************************)
C26_SthMoves ==
    (Ran /\ Opcode = STH /\ status = "running") =>
        TopOf(IF IsReturn(last.arg) THEN wst ELSE rst, last.arg) = Pops[1].v

(***************************************************************************)
(* C27. Claim: Return mode redirects every stack access: for every opcode  *)
(* other than JSR and STH, an instruction with the Return flag leaves the  *)
(* working stack's pointer and data unchanged, and an instruction without  *)
(* the Return flag leaves the return stack's pointer and data unchanged.   *)
(***************************************************************************)
OtherStackKept ==
    IF IsReturn(last.arg)
    THEN wst.ptr = last.wst.ptr /\ wst.data = last.wst.data
    ELSE rst.ptr = last.rst.ptr /\ rst.data = last.rst.data

C27_ReturnRedirects ==
    (Ran /\ Opcode \notin {JSR, STH}) => OtherStackKept

(***************************************************************************)
(* C27, as the code has it: the same, for every opcode other than JSR and  *)
(* STH and other than a DEO that reaches system port 0x02 or 0x03, which   *)
(* sets the working- or the return-stack pointer whatever the Return flag. *)
(***************************************************************************)
SetsStackPointer == SystemCall("deo") /\ SystemPort \in {2, 3}

C27_ReturnRedirectsButPorts ==
    (Ran /\ Opcode \notin {JSR, STH} /\ ~SetsStackPointer) => OtherStackKept

\* ADDr on a return stack of six bytes, the working stack left as it was
C27_Witness ==
    /\ Ran /\ last.arg = ModeReturn + ADD /\ status = "running"
    /\ last.rst.ptr = 6 /\ rst.ptr = 5 /\ Rd(rst.data, 4) = 11
    /\ wst.ptr = last.wst.ptr /\ wst.data = last.wst.data

(***************************************************************************)
(* C28. Claim: at the start of every Keep instruction each stack's kept    *)
(* pointer equals its pointer, and the two differ only inside one          *)
(* instruction: at every instruction boundary (before each fetch and when  *)
(* eval returns Ok) kept pointer = pointer on both stacks.                 *)
(***************************************************************************)
C28_BoundaryPointers ==
    (status = "running" \/ Failed("Ok")) =>
        wst.kptr = wst.ptr /\ rst.kptr = rst.ptr

(***************************************************************************)
(* C28, as the code has it: a Keep instruction starts with both kept       *)
(* pointers set to the pointers (its first access to a stack finds them    *)
(* equal, and a stack it never accesses is left with them equal), and an   *)
(* instruction without Keep never changes a kept pointer; between          *)
(* instructions a kept pointer keeps whatever value the last Keep          *)
(* instruction left in it.                                                 *)
(***************************************************************************)
StackEvents(stack) ==
    SelectSeq(trace, LAMBDA e : e.k \in {"pop", "push"} /\ e.s = stack)

SnapshotOn(stack, before, now) ==
    LET events == StackEvents(stack) IN
    IF IsKeep(last.arg)
    THEN IF events = <<>>
         THEN now.kptr = before.ptr
         ELSE events[1].kp = before.ptr /\ events[1].p = before.ptr
    ELSE /\ now.kptr = before.kptr
         /\ \A i \in DOMAIN events : events[i].kp = before.kptr /\ events[i].kq = before.kptr

C28_KeepSnapshot ==
    (Ran /\ status # "panic") =>
        SnapshotOn("wst", last.wst, wst) /\ SnapshotOn("rst", last.rst, rst)

\* a Keep instruction that found the kept pointer behind and popped from the top
C28_Witness ==
    /\ Ran /\ last.arg = ModeKeep + INC /\ status = "running"
    /\ last.wst.ptr = 1 /\ last.wst.kptr = 0
    /\ Pops[1].kp = 1 /\ Pops[1].ok
    /\ wst.ptr = 2 /\ wst.kptr # wst.ptr

(***************************************************************************)
(* C29. Claim: for every program and start address, every memory index     *)
(* that eval reads or writes lies in 0..65535 and pc stays a 16-bit value: *)
(* also for the second byte of a Short peek or poke at 0xFFFF, for the     *)
(* pc + offset address of LDR and STR, and for the increment of pc after a *)
(* fetch at 0xFFFF. No access leaves the array and no address computation  *)
(* traps.                                                                  *)
(***************************************************************************)
MemoryEvents == SelectSeq(trace, LAMBDA e : e.k \in {"peek", "poke"})

MemoryOps == {LDZ, STZ, LDR, STR, LDA, STA}

C29_AddressesInRange ==
    /\ (last.op = "instr" /\ (Opcode \in MemoryOps \/ last.pc = RamSize - 1)) =>
           status # "panic"
    /\ pc \in 0..(RamSize - 1)
    /\ \A i \in DOMAIN MemoryEvents :
         MemoryEvents[i].p >= 0 /\ MemoryEvents[i].q < RamSize

(***************************************************************************)
(* C30. Claim: ending on the 0x00 break does not set the halted flag:      *)
(* when eval returns Ok by fetching 0x00 the flag, the stacks and memory   *)
(* are what they were, and a later eval with a nonzero start address on    *)
(* the machine, not halted, runs instructions again; the halted flag       *)
(* becomes true only by a DEO to system port 0x0f, and false again only by *)
(* boot or by such a DEO.                                                  *)
(***************************************************************************)
Broke == last.op = "instr" /\ last.arg = 0 /\ status # "panic"

POk(rest, out) == [ok |-> TRUE, rest |-> rest, out |-> out]
PErr(input, kind) == [ok |-> FALSE, rest |-> input, out |-> [error |-> kind]]

Drop(input, n) == SubSeq(input, n + 1, Len(input))

\* nom's tag and char
tag(t, input) ==
    IF Len(input) >= Len(t) /\ SubSeq(input, 1, Len(t)) = t
    THEN POk(Drop(input, Len(t)), t)
    ELSE PErr(input, "Tag")

char(c, input) ==
    IF input # <<>> /\ input[1] = c THEN POk(Tail(input), c) ELSE PErr(input, "Char")

\* the length of the longest prefix made of the characters: many0(one_of(..))
RECURSIVE LeadingIn(_, _)
LeadingIn(chars, input) ==
    IF input # <<>> /\ input[1] \in chars THEN 1 + LeadingIn(chars, Tail(input)) ELSE 0

LowerHex == <<"0", "1", "2", "3", "4", "5", "6", "7", "8", "9", "a", "b", "c", "d", "e", "f">>
UpperHex == <<"0", "1", "2", "3", "4", "5", "6", "7", "8", "9", "A", "B", "C", "D", "E", "F">>
HexDigits == {LowerHex[i] : i \in DOMAIN LowerHex} \cup {UpperHex[i] : i \in DOMAIN UpperHex}
DigitValue(c) == (CHOOSE i \in DOMAIN LowerHex : LowerHex[i] = c \/ UpperHex[i] = c) - 1

\* u16::from_str_radix(out, 16), before its range check
RECURSIVE from_str_radix(_, _)
from_str_radix(digits, acc) ==
    IF digits = <<>> THEN acc
    ELSE from_str_radix(Tail(digits), acc * 16 + DigitValue(digits[1]))

hexadecimal(input) ==
    LET n == LeadingIn(HexDigits, input)
        v == from_str_radix(SubSeq(input, 1, n), 0)
    IN IF n = 0 THEN PErr(input, "OneOf")
       ELSE IF v > 65535 THEN PErr(input, "MapRes")
       ELSE POk(Drop(input, n), v)

Whitespace == {" ", "\t", "\n", "\r"}
multispace1(input) ==
    LET n == LeadingIn(Whitespace, input) IN
    IF n = 0 THEN PErr(input, "MultiSpace") ELSE POk(Drop(input, n), SubSeq(input, 1, n))

\* either_or(success_value, fail_value, char(c)): never an Err; consumes only when
\* the character is there.
either_or(success_value, fail_value, c, input) ==
    LET r == char(c, input) IN
    IF r.ok THEN POk(r.rest, success_value) ELSE POk(input, fail_value)

\* nom's permutation over either_or parsers, given as records. Each pass applies, in
\* the order of the tuple, the parsers that have no result yet; the first that returns
\* Ok gets its result, the input moves on and the pass starts again; when every
\* parser has a result they are returned.
RECURSIVE permutation_loop(_, _, _)
permutation_loop(parsers, input, results) ==
    LET pending == {i \in DOMAIN parsers : results[i] = <<>>}
        applied(i) == either_or(parsers[i].success_value, parsers[i].fail_value,
                                parsers[i].char, input)
        succeed == {i \in pending : applied(i).ok}
    IN IF pending = {} THEN POk(input, [i \in DOMAIN parsers |-> results[i][1]])
       ELSE IF succeed = {} THEN PErr(input, "Permutation")
       ELSE LET i == CHOOSE j \in succeed : \A k \in succeed : j <= k IN
            permutation_loop(parsers, applied(i).rest,
                             [results EXCEPT ![i] = <<applied(i).out>>])

permutation(parsers, input) ==
    permutation_loop(parsers, input, [i \in DOMAIN parsers |-> <<>>])

instruction_mode_flags(input) ==
    LET r == permutation(
                 <<[success_value |-> ModeShort, fail_value |-> ModeNone, char |-> "2"],
                   [success_value |-> ModeKeep, fail_value |-> ModeNone, char |-> "k"],
                   [success_value |-> ModeReturn, fail_value |-> ModeNone, char |-> "r"]>>,
                 input)
    IN IF r.ok THEN POk(r.rest, BitOr(BitOr(r.out[1], r.out[2]), r.out[3])) ELSE r

Instruction(opcode, mode, immediate) ==
    [opcode |-> opcode, mode |-> mode, immediate |-> immediate]

\* immediate that leaves the Keep flag out
immediate_bare(input) ==
    LET hash == tag(<<"#">>, input)
        v == hexadecimal(hash.rest)
    IN IF ~hash.ok \/ ~v.ok THEN PErr(input, "Immediate")
       ELSE POk(v.rest, Instruction(LIT, IF v.out > 255 THEN ModeShort ELSE ModeNone, v.out))

immediate(input) ==
    LET hash == tag(<<"#">>, input)
        v == hexadecimal(hash.rest)
    IN IF ~hash.ok \/ ~v.ok THEN PErr(input, "Immediate")
       ELSE POk(v.rest,
                Instruction(LIT,
                            IF v.out > 255 THEN BitOr(ModeKeep, ModeShort) ELSE ModeKeep,
                            v.out))

\* the names of the Opcode variants, in the order of their values
OpcodeNames ==
    <<
      <<"L", "I", "T">>, <<"I", "N", "C">>, <<"P", "O", "P">>, <<"N", "I", "P">>,
      <<"S", "W", "P">>, <<"R", "O", "T">>, <<"D", "U", "P">>, <<"O", "V", "R">>,
      <<"E", "Q", "U">>, <<"N", "E", "Q">>, <<"G", "T", "H">>, <<"L", "T", "H">>,
      <<"J", "M", "P">>, <<"J", "C", "N">>, <<"J", "S", "R">>, <<"S", "T", "H">>,
      <<"L", "D", "Z">>, <<"S", "T", "Z">>, <<"L", "D", "R">>, <<"S", "T", "R">>,
      <<"L", "D", "A">>, <<"S", "T", "A">>, <<"D", "E", "I">>, <<"D", "E", "O">>,
      <<"A", "D", "D">>, <<"S", "U", "B">>, <<"M", "U", "L">>, <<"D", "I", "V">>,
      <<"A", "N", "D">>, <<"O", "R", "A">>, <<"E", "O", "R">>, <<"S", "F", "T">>
    >>
UpperLetters == {"A", "B", "C", "D", "E", "F", "G", "H", "I", "J", "K", "L", "M", "N", "O", "P", "Q", "R", "S", "T", "U", "V", "W", "X", "Y", "Z"}

opcode_without_lit(input) ==
    IF Len(input) < 3 \/ \E i \in 1..3 : input[i] \notin UpperLetters
    THEN PErr(input, "OneOf")
    ELSE LET v == SubSeq(input, 1, 3) IN
         IF v = <<"L", "I", "T">> \/ \A i \in DOMAIN OpcodeNames : OpcodeNames[i] # v
         THEN PErr(input, "MapRes")
         ELSE POk(Drop(input, 3), (CHOOSE i \in DOMAIN OpcodeNames : OpcodeNames[i] = v) - 1)

standard_instructions(input) ==
    LET opcode == opcode_without_lit(input)
        mode == instruction_mode_flags(opcode.rest)
    IN IF ~opcode.ok \/ ~mode.ok THEN PErr(input, "Pair")
       ELSE POk(mode.rest, Instruction(opcode.out, mode.out, 0))

lit(input) ==
    LET name == tag(<<"L", "I", "T">>, input)
        mode == instruction_mode_flags(name.rest)
        space == multispace1(mode.rest)
        v == hexadecimal(space.rest)
    IN IF ~name.ok \/ ~mode.ok \/ ~space.ok \/ ~v.ok THEN PErr(input, "Pair")
       ELSE POk(v.rest, Instruction(LIT, BitOr(mode.out, ModeKeep), v.out))

instruction(input) ==
    IF standard_instructions(input).ok THEN standard_instructions(input) ELSE lit(input)

\* the instruction byte eval decodes back into this opcode and mode
Encode(i) == i.mode + i.opcode

(***************************************************************************)
(* SpecAsm: the host runs one parser of the assembler on one text: the     *)
(* flag parser on up to MaxFlags flag or other characters, immediate on    *)
(* '#' and up to MaxDigits digits, instruction on a mnemonic, up to        *)
(* MaxFlags flags and an operand.                                          *)
(***************************************************************************)
MaxFlags == 3
MaxDigits == 5

RECURSIVE Texts(_, _)
Texts(chars, n) ==
    IF n = 0 THEN {<<>>}
    ELSE LET shorter == Texts(chars, n - 1) IN
         shorter \cup {Append(t, c) : t \in shorter, c \in chars}

FlagChars == {"2", "k", "r"}
FlagTexts == Texts(FlagChars \cup {"x"}, MaxFlags)
ImmediateTexts ==
    {<<"#">> \o t : t \in Texts({"0", "1", "a", "F", "g"}, MaxDigits)}
        \cup {<<"1", "8">>, <<"#", "1", "8">>, <<"#", "1", "8", "1", "8">>}
Mnemonics == {<<"D", "U", "P">>, <<"L", "I", "T">>, <<"S", "T", "H">>, <<"B", "R", "K">>}
LitOperands ==
    {<<>>, <<" ", "1", "2">>, <<" ", "1", "2", "3", "4">>, <<" ", "\t", "f", "F">>,
     <<"1", "2">>, <<" ", "x">>}
InstructionTexts ==
    {name \o flags \o operand :
        name \in Mnemonics, flags \in Texts(FlagChars, MaxFlags), operand \in LitOperands}

Parsed(parser, input, r) ==
    /\ asm = Unparsed
    /\ asm' = [parser |-> parser, input |-> input, ok |-> r.ok, rest |-> r.rest,
               out |-> r.out]
    /\ UNCHANGED <<ram, pc, wst, rst, devices, is_halted, overflow_checks, status, res,
                   trace, last, host>>

AsmFlags ==
    \E input \in FlagTexts :
        Parsed("instruction_mode_flags", input, instruction_mode_flags(input))
AsmImmediate == \E input \in ImmediateTexts : Parsed("immediate", input, immediate(input))
AsmInstruction ==
    \E input \in InstructionTexts : Parsed("instruction", input, instruction(input))

NextAsm == AsmFlags \/ AsmImmediate \/ AsmInstruction

SpecAsm == Init /\ [][NextAsm]_vars

(***************************************************************************)
(* C31. Claim: every LIT instruction the assembler produces carries the    *)
(* Keep flag, so its instruction byte is never the 0x00 break: '#v' gives  *)
(* LIT with mode Keep when v <= 0xFF and Keep|Short when v > 0xFF, and     *)
(* 'LIT<flags> v' gives the flags written united with Keep; in both the    *)
(* immediate is v.                                                         *)
(***************************************************************************)
\* what a text says, read off its characters: the flags written after a mnemonic,
\* and the number written after them
FlagsIn(text) ==
    (IF \E i \in DOMAIN text : text[i] = "2" THEN ModeShort ELSE 0)
        + (IF \E i \in DOMAIN text : text[i] = "k" THEN ModeKeep ELSE 0)
        + (IF \E i \in DOMAIN text : text[i] = "r" THEN ModeReturn ELSE 0)
FlagsWritten == SubSeq(asm.input, 4, 3 + LeadingIn(FlagChars, Drop(asm.input, 3)))
NumberWritten(text) ==
    LET digits == Drop(text, LeadingIn(Whitespace, text)) IN
    from_str_radix(SubSeq(digits, 1, LeadingIn(HexDigits, digits)), 0)

C31_LitCarriesKeep ==
    /\ (asm.parser = "immediate" /\ asm.ok) =>
           LET v == NumberWritten(Tail(asm.input)) IN
           /\ asm.out.opcode = LIT /\ asm.out.immediate = v
           /\ asm.out.mode = IF v > 255 THEN ModeKeep + ModeShort ELSE ModeKeep
    /\ (asm.parser = "instruction" /\ asm.ok /\ asm.out.opcode = LIT) =>
           /\ asm.out.mode = BitOr(FlagsIn(FlagsWritten), ModeKeep)
           /\ asm.out.immediate = NumberWritten(Drop(asm.input, 3 + Len(FlagsWritten)))
    /\ (asm.parser \in {"immediate", "instruction"} /\ asm.ok /\ asm.out.opcode = LIT) =>
           IsKeep(asm.out.mode) /\ Encode(asm.out) # 0

\* 'LIT2r 1234' has been parsed to LIT with Short, Keep and Return
C31_Witness ==
    /\ asm.parser = "instruction" /\ asm.ok /\ asm.rest = <<>>
    /\ asm.input = <<"L", "I", "T", "2", "r", " ", "1", "2", "3", "4">>
    /\ asm.out = Instruction(LIT, ModeShort + ModeKeep + ModeReturn, 4660)
    /\ Encode(asm.out) = 224

(***************************************************************************)
(* C32. Claim: instruction_mode_flags accepts the flag characters '2', 'k' *)
(* and 'r', each at most once and in any order, consumes all of them and   *)
(* returns the union of Short, Keep and Return for the characters present  *)
(* (None for an empty suffix): 'DUP2r' and 'DUPr2' both parse to DUP with  *)
(* Short|Return and nothing left over.                                     *)
(***************************************************************************)
\* flag characters, each at most once, in any order
FlagSuffix(text) ==
    /\ \A i \in DOMAIN text : text[i] \in FlagChars
    /\ \A i, j \in DOMAIN text : text[i] = text[j] => i = j

C32_FlagsAnyOrder ==
    /\ (asm.parser = "instruction_mode_flags" /\ FlagSuffix(asm.input)) =>
           asm.ok /\ asm.rest = <<>> /\ asm.out = FlagsIn(asm.input)
    /\ (/\ asm.parser = "instruction"
        /\ SubSeq(asm.input, 1, 3) = <<"D", "U", "P">>
        /\ FlagSuffix(Drop(asm.input, 3))) =>
           /\ asm.ok /\ asm.rest = <<>>
           /\ asm.out = Instruction(DUP, FlagsIn(Drop(asm.input, 3)), 0)

====
